---- MODULE Spec2Model ----
(***************************************************************************)
(* A model of ptyprocess (src/src/process.rs): PtyProcess::spawn with its  *)
(* fork/exec handshake over the exec-error pipe, the forked child's setup  *)
(* sequence, the process the kernel keeps for the child, the handle's      *)
(* status / wait / is_alive / kill / exit operations and its Drop; then    *)
(* the window-size, echo and control-character operations, wait_echo,      *)
(* send and send_line, interact with its splice loop, and the observer     *)
(* operations called by several threads on one shared handle.              *)
(***************************************************************************)
EXTENDS Integers, Sequences, FiniteSets, TLC

(***************************************************************************)
(* Bounds of the model.                                                    *)
(***************************************************************************)
\* number of operations the owner of a handle calls on it before dropping it
MaxOps == 3
\* calls of the terminal and send operations in one behaviour
MaxTermOps == 2
\* changes the child or the caller's environment make to a terminal
MaxOthers == 1
\* the longest time wait_echo is followed for, in sleeps of 100 ms
MaxTicks == 2
\* the longest string handed to send and send_line, in bytes
MaxLen == 2
\* bytes the user types on descriptor 0 in one behaviour
MaxInput == 3
\* bytes the child writes to its terminal in one behaviour
MaxOutput == 2
\* threads that share one handle immutably
NumObservers == 2
\* calls they make in all
MaxObsCalls == 3
\* the caller's descriptors at spawn are numbered 0..MaxParentFd
MaxParentFd == 3

(***************************************************************************)
(* Program constants.                                                      *)
(***************************************************************************)
DEFAULT_TERM_COLS == 80
DEFAULT_TERM_ROWS == 24
DEFAULT_VEOF_CHAR == 4
DEFAULT_INTR_CHAR == 3
\* ControlCode::GroupSeparator, Ctrl-]
ESCAPE == 29

\* errno values the system calls of the model fail with
\* (ENOENT, ENXIO, EBADF, EACCES), as nix::errno::Errno numbers them
Errnos == {2, 6, 9, 13}

\* an error value of nix: Error::Sys(errno) or Error::UnsupportedOperation
SysErr(e) == [kind |-> "Sys", errno |-> e]
Unsupported == [kind |-> "UnsupportedOperation", errno |-> 0]
NoErr == [kind |-> "none", errno |-> 0]

(***************************************************************************)
(* The exec-error code and its four bytes.                                 *)
(***************************************************************************)
\* err.as_errno().map_or(-1, |e| e as i32)
CodeOf(err) == IF err.kind = "Sys" THEN err.errno ELSE -1

\* i32::to_be_bytes: the bytes of the two's complement of the code, most
\* significant first (\div rounds down and % is never negative, so the bytes
\* of a negative code are those of code + 2^32)
ToBeBytes(code) ==
    << (code \div 16777216) % 256, (code \div 65536) % 256,
       (code \div 256) % 256, code % 256 >>

\* the code decoded least significant byte first, as i32::from_le_bytes would
FromLeBytes(b) ==
    (IF b[4] >= 128 THEN b[4] - 256 ELSE b[4]) * 16777216
        + b[3] * 65536 + b[2] * 256 + b[1]

\* i32::from_be_bytes: the first byte carries the sign
FromBeBytes(b) ==
    (IF b[1] >= 128 THEN b[1] - 256 ELSE b[1]) * 16777216
        + b[2] * 65536 + b[3] * 256 + b[4]

\* errno::from_i32: a number that names no errno is Errno::UnknownErrno (0)
ErrnoFromI32(code) == IF code \in Errnos THEN code ELSE 0

\* unistd::read(fd, &mut pipe_buf) on pipe_buf = [0u8; 4]: the bytes read
\* overwrite the front of the buffer, the rest stays zero
ReadInto(bytes) == [i \in 1..4 |-> IF i <= Len(bytes) THEN bytes[i] ELSE 0]

(***************************************************************************)
(* The child's setup sequence, PtyProcess::spawn lines 80-105.             *)
(***************************************************************************)
\* the closure with setsid after the open of the slave path
ChildStepsSetsidLate ==
    << "get_slave_name", "get_slave_fd", "tty_probe", "tty_probe_again",
       "open_slave", "setsid", "tty_confirm", "redirect_std_streams", "set_echo",
       "set_term_size", "close_read", "set_cloexec", "sysconf", "close_fds", "exec" >>

\* make_controlling_tty is the five steps from "tty_probe" to "tty_confirm":
\* open("/dev/tty") before setsid, setsid, open("/dev/tty") after it,
\* open(child_name) and the confirming open("/dev/tty")
ChildSteps ==
    << "get_slave_name", "get_slave_fd", "tty_probe", "setsid", "tty_probe_again",
       "open_slave", "tty_confirm", "redirect_std_streams", "set_echo",
       "set_term_size", "close_read", "set_cloexec", "sysconf", "close_fds", "exec" >>

StepIndex(name) == CHOOSE i \in 1..Len(ChildSteps) : ChildSteps[i] = name

\* the step that follows a successful step
NextStep(name) == ChildSteps[StepIndex(name) + 1]

ENXIO == 6

\* what the system call of a step returns: 0 for success, or an errno
Outcomes(name) == {0} \cup Errnos

\* what a step of the closure makes of it: NoErr to go on, or the error the
\* closure returns.  The first probe of /dev/tty accepts Ok and ENXIO, the
\* second accepts ENXIO alone and turns everything else into
\* Error::UnsupportedOperation; every other step returns the errno with `?`
StepResult(name, out) ==
    IF name = "tty_probe_again"
    THEN (IF out = ENXIO THEN NoErr ELSE Unsupported)
    ELSE IF out = 0 \/ (name = "tty_probe" /\ out = ENXIO) THEN NoErr
    ELSE SysErr(out)

\* the errors a failing step returns
StepErrors(name) == { StepResult(name, out) : out \in Outcomes(name) } \ {NoErr}

\* what the closure's trace keeps of an outcome: the second probe's, which the
\* protocol branches on three ways
Logged(name, out) == IF name = "tty_probe_again" THEN out ELSE 0

(***************************************************************************)
(* Descriptor tables: what each descriptor number of a process refers to.  *)
(***************************************************************************)
\* sysconf(OPEN_MAX): the limit lies above every descriptor a process holds
OPEN_MAX == MaxParentFd + 5

\* the caller's table when spawn is called: p is the set of its descriptors
ParentTable(p) == [fd \in 0..(OPEN_MAX - 1) |-> IF fd \in p THEN "other" ELSE "closed"]

NoTable == ParentTable({})

\* the kernel gives a new descriptor the lowest free number
LowestFree(t) ==
    CHOOSE fd \in DOMAIN t :
        t[fd] = "closed" /\ \A g \in DOMAIN t : g < fd => t[g] # "closed"

Open(t, obj) == [t EXCEPT ![LowestFree(t)] = obj]

\* Master::open, then pipe(): the table the fork copies to the child
ForkTable(p) == Open(Open(Open(ParentTable(p), "master"), "pipe_r"), "pipe_w")

FdOf(t, obj) == CHOOSE fd \in DOMAIN t : t[fd] = obj

\* slave_fd: the first descriptor the child opens
SlaveFd(p) == LowestFree(ForkTable(p))

\* redirect_std_streams after n of its six calls: close(0), close(1),
\* close(2), dup2(fd, 0), dup2(fd, 1), dup2(fd, 2)
RedirectCalls(t, fd, n) ==
    [d \in DOMAIN t |->
        IF d \in 0..2 /\ d + 4 <= n THEN t[fd]
        ELSE IF d \in 0..2 /\ d + 1 <= n THEN "closed"
        ELSE t[d]]

\* a close loop that closes nothing
CloseFdsNone(t, p) == t

\* (3..max_open_fds) without slave_fd and exec_err_pipe_write, each closed
CloseFds(t, p) ==
    [d \in DOMAIN t |->
        IF d >= 3 /\ d # SlaveFd(p) /\ d # FdOf(ForkTable(p), "pipe_w")
        THEN "closed" ELSE t[d]]

\* the child's table after a successful step of the closure
StepTable(name, t, p) ==
    IF name = "get_slave_fd"
    THEN [Open(t, "slave") EXCEPT ![FdOf(ForkTable(p), "master")] = "closed"]
    ELSE IF name = "redirect_std_streams" THEN RedirectCalls(t, SlaveFd(p), 6)
    ELSE IF name = "close_read"
    THEN [t EXCEPT ![FdOf(ForkTable(p), "pipe_r")] = "closed"]
    ELSE IF name = "close_fds" THEN CloseFds(t, p)
    ELSE t

\* whether the step can succeed on the table: close fails on a descriptor
\* that is not open
StepCanSucceed(name, t, p) ==
    IF name = "redirect_std_streams" THEN \A d \in 0..2 : t[d] # "closed"
    ELSE IF name = "close_read" THEN t[FdOf(ForkTable(p), "pipe_r")] # "closed"
    ELSE TRUE

\* the tables a failing step leaves: redirect_std_streams fails at one of
\* its calls, after the closes before it succeeded
StepFailTables(name, t, p) ==
    IF name = "redirect_std_streams"
    THEN { RedirectCalls(t, SlaveFd(p), n) :
             n \in { m \in 0..5 : \A d \in 0..2 : d + 1 <= m => t[d] # "closed" } }
    ELSE {t}

\* execve closes the descriptors that have FD_CLOEXEC
ExecTable(t, p, cx) ==
    [d \in DOMAIN t |->
        IF cx /\ d = FdOf(ForkTable(p), "pipe_w") THEN "closed" ELSE t[d]]

VARIABLES
    ppc,        \* the parent's position in spawn
    cpc,        \* the forked child's position in spawn
    cerr,       \* the error the child's closure returned
    failedAt,   \* the step of the closure that returned it
    pread,      \* what the parent's read of the pipe returned
    pipeBuf,    \* bytes in the exec-error pipe
    wParent,    \* the parent holds the write end open
    wChild,     \* the child's process holds the write end open
    rChild,     \* the child's process holds the read end open
    cloexec,    \* FD_CLOEXEC is set on the child's write end
    spawnRet,   \* what spawn returned in the parent
    echo,       \* the pty's ECHO flag
    winsize,    \* the pty's window size, <<cols, rows>>
    proc,       \* the child process: "none", "running", "zombie", "reaped"
    termStatus, \* how the child process ended
    pending,    \* signals delivered to the child and not yet acted on
    handle,     \* the PtyProcess value: "none", "live", "dropped", "panicked"
    nops,       \* operations called on the handle so far
    lastOp,     \* the last completed handle operation and its result
    aliveLog,   \* what the is_alive calls have returned so far
    termReturned, \* calls that returned the child's terminal status
    xpc,        \* position inside exit: "idle", "entry", "kill", "recheck"
    xidx,       \* index of the signal exit is at
    xforce,     \* exit's argument
    sigLog,     \* signals the running exit call has sent
    checkLog,   \* results of the liveness checks of the running exit call
    inDrop,     \* exit was called by Drop
    ptyOther,   \* the pty's terminal attributes other than ECHO (ICANON stands for them)
    wsPixel,    \* the pty's window size in pixels, <<xpixel, ypixel>>
    fd0,        \* the terminal behind the library user's fd 0
    fd1,        \* the terminal behind the library user's fd 1
    nothers,    \* changes made so far to a terminal by the child or the caller's
                \* environment
    eofChar,    \* PtyProcess::eof_char
    intrChar,   \* PtyProcess::intr_char
    envAtFork,  \* what descriptors 0 and 1 were when spawn sampled them
    toChild,    \* bytes written to the child through the stream, in order
    tn,         \* terminal and send operations called so far
    tlog,       \* the last completed terminal operation and its result
    lastSetWs,  \* the last set_window_size that returned Ok, if the child
                \* has not changed the size since
    lastSetEcho, \* the last set_echo that returned Ok, if the child has not
                \* changed the attributes since
    wpc,        \* where wait_echo is: "idle", "test", "poll", "sleep"
    wOn,        \* wait_echo's argument `on`
    wTimeout,   \* wait_echo's argument `timeout`
    wElapsed,   \* time since wait_echo took `now`, in sleeps of 100 ms
    wHeld,      \* echo has equalled `on` ever since wait_echo was called
    api,        \* the feature the crate is built with: "sync" or "async"
    ipc,        \* where interact is: "idle", "isatty", "loop", "read_child",
                \* "read_stdin", "restore", "done"
    iOrig,      \* interact's origin_pty_echo
    iSetEcho,   \* interact's set_echo(true) has succeeded
    iSaved,     \* interact's origin_stdin_flags ("none" before it reads them)
    stdinMode,  \* the termios of the caller's descriptor 0
    typed,      \* every byte the user has typed on descriptor 0, in order
    nread,      \* how many of them interact has read
    stdinEof,   \* descriptor 0 is at end of input once `typed` is read
    nout,       \* the child has written the bytes 1..nout to its terminal
    ngot,       \* how many of them interact has read from the stream
    stdoutLog,  \* the bytes interact wrote to stdout, in order
    iresult,    \* the value _interact returned
    iend,       \* why _interact returned
    iret,       \* the value interact returned
    ilog,       \* the termios calls on descriptor 0 and the echo restore
                \* interact made, in order, with their results
    obs,        \* for each thread sharing &PtyProcess: where its call is, the
                \* operation and its result
    ncalls,     \* the calls the observers have made
    deadSeen,   \* some observer's call has found that the child is not alive
    rParent,    \* the parent holds the read end of the exec-error pipe open
    clog,       \* the steps the child's closure has completed, in order
    pfds,       \* the descriptors the caller holds when it calls spawn
    cfds        \* the child process's descriptor table

spawnVars == << ppc, cpc, cerr, failedAt, pread, pipeBuf, wParent, wChild, rChild,
               cloexec, spawnRet >>
ttyVars == << echo, winsize >>
procVars == << proc, termStatus, pending >>
exitVars == << xpc, xidx, xforce, sigLog, checkLog, inDrop >>
handleVars == << handle, nops, lastOp, aliveLog, termReturned >>
charVars == << eofChar, intrChar, envAtFork >>
fdVars == << rParent, clog, pfds, cfds >>
forkVars == << charVars, fdVars >>
envVars == << fd0, fd1, nothers >>
attrVars == << ptyOther, wsPixel >>
opVars == << toChild, tn, tlog, lastSetWs, lastSetEcho >>
wechoVars == << wpc, wOn, wTimeout, wElapsed, wHeld >>
interactVars == << ipc, iOrig, iSetEcho, iSaved, stdinMode, typed, nread, stdinEof,
                  nout, ngot, stdoutLog, iresult, iend, iret, ilog >>
obsVars == << obs, ncalls, deadSeen >>
laterVars == << api, interactVars, obsVars >>
restVars == << envVars, attrVars, opVars, wechoVars, laterVars >>
extVars == << forkVars, restVars >>
vars == << spawnVars, ttyVars, procVars, exitVars, handleVars, extVars >>

(***************************************************************************)
(* The terminals of the calling process and their special characters.      *)
(***************************************************************************)
\* what tcgetattr finds behind a descriptor of the calling process
NotATty == [tty |-> FALSE, veof |-> 0, vintr |-> 0]
Tty(veof, vintr) == [tty |-> TRUE, veof |-> veof, vintr |-> vintr]
Fd0Choices == {NotATty, Tty(26, 28)}
Fd1Choices == {NotATty, Tty(21, 7)}

NoChar == [some |-> FALSE, ch |-> 0]
SomeChar(c) == [some |-> TRUE, ch |-> c]

\* get_term_char: tcgetattr(fd)? and then the indexed control character
GetTermChar(t, which) == IF t.tty THEN SomeChar(t[which]) ELSE NoChar

\* get_this_term_char probing descriptor 1 only
GetThisTermCharStdoutOnly(t0, t1, which) == GetTermChar(t1, which)

\* get_this_term_char: the first of descriptors 0 and 1 that answers
GetThisTermChar(t0, t1, which) ==
    IF GetTermChar(t0, which).some THEN GetTermChar(t0, which)
    ELSE IF GetTermChar(t1, which).some THEN GetTermChar(t1, which)
    ELSE NoChar

UnwrapOr(o, d) == IF o.some THEN o.ch ELSE d

GetEofChar(t0, t1) == UnwrapOr(GetThisTermChar(t0, t1, "veof"), DEFAULT_VEOF_CHAR)
GetIntrChar(t0, t1) == UnwrapOr(GetThisTermChar(t0, t1, "vintr"), DEFAULT_INTR_CHAR)

(***************************************************************************)
(* The window size and the terminal attributes of the pty.                 *)
(***************************************************************************)
Winsize(row, col, xp, yp) ==
    [ws_row |-> row, ws_col |-> col, ws_xpixel |-> xp, ws_ypixel |-> yp]

\* the struct set_term_size hands to TIOCSWINSZ, rows and columns exchanged
SizeArgSwapped(cols, rows) == Winsize(cols, rows, 0, 0)

\* the struct set_term_size hands to TIOCSWINSZ
SizeArg(cols, rows) == Winsize(rows, cols, 0, 0)

\* get_term_size: the pair made of the struct TIOCGWINSZ filled
SizePair(size) == << size.ws_col, size.ws_row >>

Termios(e, o) == [echo |-> e, other |-> o]

\* set_echo's change of the flags, ignoring its argument
EchoFlagsAlwaysOn(flags, on) == [flags EXCEPT !.echo = TRUE]

\* set_echo's change of the flags tcgetattr returned
EchoFlags(flags, on) == [flags EXCEPT !.echo = on]

NoTermOp == [op |-> "none", k |-> "none", v |-> "none", arg |-> "none",
             pre |-> "none", post |-> "none"]
NoSet == [valid |-> FALSE, arg |-> "none"]

\* Option<Duration>, the duration counted in sleeps of 100 ms
NoDuration == [some |-> FALSE, d |-> 0]
SomeDuration(d) == [some |-> TRUE, d |-> d]

\* the threads that share one &PtyProcess
Observers == 1..NumObservers
NoCall == [pc |-> "idle", op |-> "none", res |-> [k |-> "none", v |-> "none"],
           after |-> FALSE]

\* the state of everything outside spawn and the process operations before
\* any of it is used
ExtIdle ==
    /\ ptyOther = TRUE
    /\ wsPixel = << 0, 0 >>
    /\ nothers = 0
    /\ eofChar = 0
    /\ intrChar = 0
    /\ toChild = << >>
    /\ tn = 0
    /\ tlog = NoTermOp
    /\ lastSetWs = NoSet
    /\ lastSetEcho = NoSet
    /\ envAtFork = << NotATty, NotATty >>
    /\ wpc = "idle"
    /\ wOn = FALSE
    /\ wTimeout = NoDuration
    /\ wElapsed = 0
    /\ wHeld = FALSE
    /\ ipc = "idle"
    /\ iOrig = FALSE
    /\ iSetEcho = FALSE
    /\ iSaved = "none"
    /\ stdinMode = "cooked"
    /\ typed = << >>
    /\ nread = 0
    /\ stdinEof = FALSE
    /\ nout = 0
    /\ ngot = 0
    /\ stdoutLog = << >>
    /\ iresult = [k |-> "none", v |-> "none"]
    /\ iend = "none"
    /\ iret = [k |-> "none", v |-> "none"]
    /\ ilog = << >>
    /\ obs = [t \in Observers |-> NoCall]
    /\ ncalls = 0
    /\ deadSeen = FALSE
    /\ rParent = FALSE
    /\ clog = << >>
    /\ cfds = NoTable

NoOp == [op |-> "none", k |-> "none", v |-> "none", before |-> "none", arg |-> "none"]
NoStatus == [kind |-> "none", code |-> 0, sig |-> "none"]

\* the state before spawn is called, whatever the caller's terminals are
InitBase ==
    /\ ppc = "start"
    /\ cpc = "none"
    /\ cerr = NoErr
    /\ failedAt = "none"
    /\ pread = [done |-> FALSE, bytes |-> << >>]
    /\ pipeBuf = << >>
    /\ wParent = FALSE
    /\ wChild = FALSE
    /\ rChild = FALSE
    /\ cloexec = FALSE
    /\ spawnRet = [k |-> "none", errno |-> 0, src |-> "none"]
    /\ echo = TRUE
    /\ winsize = << 0, 0 >>
    /\ proc = "none"
    /\ termStatus = NoStatus
    /\ pending = {}
    /\ handle = "none"
    /\ nops = 0
    /\ lastOp = NoOp
    /\ aliveLog = "none"
    /\ termReturned = 0
    /\ xpc = "idle"
    /\ xidx = 0
    /\ xforce = FALSE
    /\ sigLog = << >>
    /\ checkLog = << >>
    /\ inDrop = FALSE
    /\ ExtIdle

Init ==
    /\ InitBase
    /\ pfds = {0, 1, 2}
    /\ fd0 = NotATty
    /\ fd1 = NotATty
    /\ api = "sync"

(***************************************************************************)
(* PtyProcess::spawn, the parent before the fork.                          *)
(***************************************************************************)
SpawnErr(e, src) == [k |-> "Err", errno |-> e, src |-> src]
SpawnOk == [k |-> "Ok", errno |-> 0, src |-> "none"]

\* get_eof_char and get_intr_char sample the caller's terminal; Master::open,
\* grant_slave_access, unlock_slave, pipe and fork all succeed:
\* the child starts its closure, both processes hold both ends of the pipe
SpawnFork ==
    /\ ppc = "start"
    /\ ppc' = "close_write"
    /\ cpc' = ChildSteps[1]
    /\ wParent' = TRUE
    /\ wChild' = TRUE
    /\ rChild' = TRUE
    /\ proc' = "running"
    /\ eofChar' = GetEofChar(fd0, fd1)
    /\ intrChar' = GetIntrChar(fd0, fd1)
    /\ UNCHANGED << cerr, failedAt, pread, pipeBuf, cloexec, spawnRet, ttyVars,
                    termStatus, pending, exitVars, handleVars >>
    /\ envAtFork' = << fd0, fd1 >>
    /\ rParent' = TRUE
    /\ cfds' = ForkTable(pfds)
    /\ UNCHANGED << clog, pfds, restVars >>

\* one of the calls before the fork fails: `?` returns its error, no child
\* exists; when it is fork() that fails, pipe() has made both descriptors
SpawnPreForkFails ==
    /\ ppc = "start"
    /\ \E e \in Errnos : spawnRet' = SpawnErr(e, "sys")
    /\ ppc' = "err"
    /\ \E piped \in BOOLEAN : wParent' = piped /\ rParent' = piped
    /\ UNCHANGED << cpc, cerr, failedAt, pread, pipeBuf, wChild, rChild,
                    cloexec, ttyVars, procVars, exitVars, handleVars, charVars,
                    clog, pfds, cfds, restVars >>

(***************************************************************************)
(* PtyProcess::spawn, ForkResult::Child.                                   *)
(***************************************************************************)
\* the steps whose error the closure returns with `?`; the close loop
\* discards the result of every close
FallibleSteps == { ChildSteps[i] : i \in 1..Len(ChildSteps) } \ {"close_fds", "exec"}

\* a setup step succeeds
ChildSetupOk ==
    /\ cpc \in { ChildSteps[i] : i \in 1..Len(ChildSteps) } \ {"exec"}
    /\ StepCanSucceed(cpc, cfds, pfds)
    /\ \E out \in Outcomes(cpc) :
          /\ StepResult(cpc, out) = NoErr
          /\ clog' = Append(clog, [step |-> cpc, out |-> Logged(cpc, out)])
    /\ cfds' = StepTable(cpc, cfds, pfds)
    /\ cpc' = NextStep(cpc)
    /\ echo' = IF cpc = "set_echo" THEN FALSE ELSE echo
    /\ winsize' = IF cpc = "set_term_size"
                  THEN << DEFAULT_TERM_COLS, DEFAULT_TERM_ROWS >> ELSE winsize
    /\ rChild' = IF cpc = "close_read" THEN FALSE ELSE rChild
    /\ cloexec' = IF cpc = "set_cloexec" THEN TRUE ELSE cloexec
    /\ UNCHANGED << ppc, cerr, failedAt, pread, pipeBuf, wParent, wChild, spawnRet,
                    procVars, exitVars, handleVars, charVars, rParent, pfds,
                    restVars >>

\* a setup step fails: the closure returns the error
ChildSetupFails ==
    /\ cpc \in FallibleSteps
    /\ \E err \in StepErrors(cpc) : cerr' = err
    /\ \E t \in StepFailTables(cpc, cfds, pfds) : cfds' = t
    /\ failedAt' = cpc
    /\ cpc' = "write"
    /\ UNCHANGED << pread, ppc, pipeBuf, wParent, wChild, rChild, cloexec, spawnRet,
                    ttyVars, procVars, exitVars, handleVars, charVars, rParent,
                    clog, pfds, restVars >>

\* sysconf(OPEN_MAX) returns Ok(None): unwrap() panics and the panic unwinds
\* out of spawn in the child process
ChildSysconfNone ==
    /\ cpc = "sysconf"
    /\ cpc' = "panicked"
    /\ UNCHANGED << ppc, cerr, failedAt, pread, pipeBuf, wParent, wChild, rChild,
                    cloexec, spawnRet, ttyVars, procVars, exitVars, handleVars, extVars >>

\* command.exec() succeeds: the process image is replaced and the kernel
\* closes the descriptors that have FD_CLOEXEC
ChildExecOk ==
    /\ cpc = "exec"
    /\ cpc' = "execed"
    /\ wChild' = IF cloexec THEN FALSE ELSE wChild
    /\ cfds' = ExecTable(cfds, pfds, cloexec)
    /\ UNCHANGED << ppc, cerr, failedAt, pread, pipeBuf, wParent, rChild, cloexec,
                    spawnRet, ttyVars, procVars, exitVars, handleVars, charVars,
                    rParent, clog, pfds, restVars >>

\* command.exec() returns: the closure returns Error::last()
ChildExecFails ==
    /\ cpc = "exec"
    /\ \E e \in Errnos : cerr' = SysErr(e)
    /\ failedAt' = cpc
    /\ cpc' = "write"
    /\ UNCHANGED << pread, ppc, pipeBuf, wParent, wChild, rChild, cloexec, spawnRet,
                    ttyVars, procVars, exitVars, handleVars, extVars >>

\* write(exec_err_pipe_write, &code.to_be_bytes()) succeeds
ChildWriteOk ==
    /\ cpc = "write"
    /\ wChild
    /\ pipeBuf' = pipeBuf \o ToBeBytes(CodeOf(cerr))
    /\ cpc' = "exit"
    /\ UNCHANGED << ppc, cerr, failedAt, pread, wParent, wChild, rChild, cloexec,
                    spawnRet, ttyVars, procVars, exitVars, handleVars, extVars >>

\* the write fails: `?` returns the error from spawn, in the child process
ChildWriteFails ==
    /\ cpc = "write"
    /\ cpc' = "returned"
    /\ UNCHANGED << ppc, cerr, failedAt, pread, pipeBuf, wParent, wChild, rChild,
                    cloexec, spawnRet, ttyVars, procVars, exitVars, handleVars, extVars >>

\* the low byte of the code is the exit status the kernel keeps
ExitStatusOf(code) == [kind |-> "Exited", code |-> code % 256, sig |-> "none"]

\* process::exit(code): the process ends and the kernel closes its descriptors
ChildExit ==
    /\ cpc = "exit"
    /\ cpc' = "exited"
    /\ proc' = "zombie"
    /\ termStatus' = ExitStatusOf(CodeOf(cerr))
    /\ wChild' = FALSE
    /\ rChild' = FALSE
    /\ cfds' = NoTable
    /\ UNCHANGED << ppc, cerr, failedAt, pread, pipeBuf, wParent, cloexec, spawnRet,
                    ttyVars, pending, exitVars, handleVars, charVars, rParent,
                    clog, pfds, restVars >>

(***************************************************************************)
(* PtyProcess::spawn, ForkResult::Parent.                                  *)
(***************************************************************************)
\* close(exec_err_pipe_write)
ParentCloseWrite ==
    /\ ppc = "close_write"
    /\ wParent' = FALSE
    /\ ppc' = "read"
    /\ UNCHANGED << cpc, cerr, failedAt, pread, pipeBuf, wChild, rChild, cloexec,
                    spawnRet, ttyVars, procVars, exitVars, handleVars, extVars >>

\* a read that does not return at end of file
ReadReadyOnData == pipeBuf # << >>

\* what a blocking read of up to 4 bytes returns: the bytes at the front of
\* the pipe, or nothing (EOF) once no process holds the write end
ReadReady == pipeBuf # << >> \/ (~wParent /\ ~wChild)
ReadBytes == SubSeq(pipeBuf, 1, IF Len(pipeBuf) < 4 THEN Len(pipeBuf) ELSE 4)

\* the value spawn decodes from the pipe
DecodeCode(bytes) == FromBeBytes(ReadInto(bytes))

\* unistd::read(exec_err_pipe_read, &mut pipe_buf), the decoding of the code
\* and the return of the error it names
ParentRead ==
    /\ ppc = "read"
    /\ ReadReady
    /\ pipeBuf' = SubSeq(pipeBuf, Len(ReadBytes) + 1, Len(pipeBuf))
    /\ pread' = [done |-> TRUE, bytes |-> ReadBytes]
    /\ LET code == DecodeCode(ReadBytes)
       IN  IF code # 0
           THEN /\ spawnRet' = SpawnErr(ErrnoFromI32(code), "pipe")
                /\ ppc' = "err"
           ELSE /\ spawnRet' = spawnRet
                /\ ppc' = "set_term_size"
    /\ UNCHANGED << cpc, cerr, failedAt, wParent, wChild, rChild, cloexec, ttyVars,
                    procVars, exitVars, handleVars, extVars >>

\* set_term_size(master, 80, 24) in the parent
ParentSetSize ==
    /\ ppc = "set_term_size"
    /\ winsize' = << DEFAULT_TERM_COLS, DEFAULT_TERM_ROWS >>
    /\ ppc' = "dup"
    /\ UNCHANGED << cpc, cerr, failedAt, pread, pipeBuf, wParent, wChild, rChild,
                    cloexec, spawnRet, echo, procVars, exitVars, handleVars, extVars >>

\* master.get_file_handle(), Stream::new and Ok(Self { .. })
ParentReturnOk ==
    /\ ppc = "dup"
    /\ ppc' = "ok"
    /\ spawnRet' = SpawnOk
    /\ handle' = "live"
    /\ UNCHANGED << cpc, cerr, failedAt, pread, pipeBuf, wParent, wChild, rChild,
                    cloexec, ttyVars, procVars, exitVars, nops, lastOp, aliveLog,
                    termReturned, extVars >>

\* a system call of the parent fails after the fork: `?` returns its error
ParentSyscallFails ==
    /\ ppc \in {"close_write", "read", "set_term_size", "dup"}
    /\ \E e \in Errnos : spawnRet' = SpawnErr(e, "sys")
    /\ ppc' = "err"
    /\ UNCHANGED << cpc, cerr, failedAt, pread, pipeBuf, wParent, wChild, rChild,
                    cloexec, ttyVars, procVars, exitVars, handleVars, extVars >>


(***************************************************************************)
(* The child process as the kernel and the command run it.                 *)
(***************************************************************************)
Signals == {"SIGHUP", "SIGCONT", "SIGINT", "SIGTERM", "SIGKILL"}

\* the process runs code that is not spawn's closure: the command it
\* exec'ed, or the caller's code after spawn returned or panicked in the child
ProcOnItsOwn == proc = "running" /\ cpc \in {"execed", "returned", "panicked"}

\* the process ends by itself; the kernel closes its descriptors
ProcExits ==
    /\ ProcOnItsOwn
    /\ proc' = "zombie"
    /\ termStatus' = [kind |-> "Exited", code |-> 0, sig |-> "none"]
    /\ pending' = {}
    /\ wChild' = FALSE
    /\ rChild' = FALSE
    /\ cfds' = NoTable
    /\ UNCHANGED << ppc, cpc, cerr, failedAt, pread, pipeBuf, wParent, cloexec,
                    spawnRet, ttyVars, exitVars, handleVars, charVars, rParent,
                    clog, pfds, restVars >>

\* a delivered signal ends the process (SIGCONT never does)
ProcDiesOfSignal ==
    /\ ProcOnItsOwn
    /\ \E s \in pending \ {"SIGCONT"} :
          termStatus' = [kind |-> "Signaled", code |-> 0, sig |-> s]
    /\ proc' = "zombie"
    /\ pending' = {}
    /\ wChild' = FALSE
    /\ rChild' = FALSE
    /\ cfds' = NoTable
    /\ UNCHANGED << ppc, cpc, cerr, failedAt, pread, pipeBuf, wParent, cloexec,
                    spawnRet, ttyVars, exitVars, handleVars, charVars, rParent,
                    clog, pfds, restVars >>

\* the process handles or ignores a delivered signal (SIGKILL cannot be)
ProcSurvivesSignal ==
    /\ ProcOnItsOwn
    /\ \E s \in pending \ {"SIGKILL"} : pending' = pending \ {s}
    /\ UNCHANGED << spawnVars, ttyVars, proc, termStatus, exitVars, handleVars, extVars >>

(***************************************************************************)
(* waitpid and kill on the child's pid.                                    *)
(***************************************************************************)
Res(k, v) == [k |-> k, v |-> v]

\* waitpid(child_pid, ..): a running child is StillAlive (with WNOHANG), an
\* ended one gives its status once, a reaped one gives ECHILD
WaitPid(p, ts) ==
    IF p = "running" THEN Res("Ok", "StillAlive")
    ELSE IF p = "zombie" THEN Res("Ok", ts.kind)
    ELSE Res("Err", "ECHILD")

\* waitpid removes an ended child
Reap(p) == IF p = "zombie" THEN "reaped" ELSE p

\* signal::kill(child_pid, sig): a reaped pid is no process (ESRCH); the
\* kernel may refuse a running child of other credentials (EPERM)
KillResults(p) ==
    IF p = "reaped" THEN {Res("Err", "ESRCH")}
    ELSE IF p = "running" THEN {Res("Ok", "unit"), Res("Err", "EPERM")}
    ELSE {Res("Ok", "unit")}

\* the signals pending on the child after a successful kill
Deliver(p, pend, sig) == IF p = "running" THEN pend \cup {sig} ELSE pend

(***************************************************************************)
(* PtyProcess::status, wait, is_alive, kill.                               *)
(***************************************************************************)
\* PtyProcess::status: waitpid with WNOHANG
StatusResult(p, ts) == WaitPid(p, ts)

\* a wait that answers for a reaped child with the status it ended with
WaitResultCached(p, ts) ==
    IF p = "reaped" THEN Res("Ok", ts.kind) ELSE WaitPid(p, ts)

\* PtyProcess::wait: the blocking waitpid, which returns once the child is
\* not running
WaitResult(p, ts) == WaitPid(p, ts)

\* an is_alive that passes every error of status() on, ECHILD included
IsAliveEchildErr(st) ==
    IF st.k = "Ok" THEN Res("Ok", IF st.v = "StillAlive" THEN "true" ELSE "false")
    ELSE st

\* PtyProcess::is_alive on the result of status()
IsAliveOf(st) ==
    IF st.k = "Ok" /\ st.v = "StillAlive" THEN Res("Ok", "true")
    ELSE IF st.k = "Ok" \/ st.v \in {"ECHILD", "ESRCH"} THEN Res("Ok", "false")
    ELSE st

IsTerminal(r) == r.k = "Ok" /\ r.v \in {"Exited", "Signaled"}

\* the record of the is_alive results: "revived" once a true followed a false
LogAlive(log, r) ==
    IF r.k # "Ok" THEN log
    ELSE IF r.v = "true" THEN (IF log \in {"dead", "revived"} THEN "revived" ELSE "alive")
    ELSE (IF log = "revived" THEN "revived" ELSE "dead")

OpRec(op, r, before, arg) ==
    [op |-> op, k |-> r.k, v |-> r.v, before |-> before, arg |-> arg]

CanCall == handle = "live" /\ xpc = "idle" /\ nops < MaxOps

Status ==
    /\ CanCall
    /\ LET r == StatusResult(proc, termStatus)
       IN  /\ lastOp' = OpRec("status", r, proc, "none")
           /\ termReturned' = termReturned + (IF IsTerminal(r) THEN 1 ELSE 0)
    /\ proc' = Reap(proc)
    /\ nops' = nops + 1
    /\ UNCHANGED << spawnVars, ttyVars, termStatus, pending, exitVars, handle,
                    aliveLog, extVars >>

Wait ==
    /\ CanCall
    /\ proc # "running"
    /\ LET r == WaitResult(proc, termStatus)
       IN  /\ lastOp' = OpRec("wait", r, proc, "none")
           /\ termReturned' = termReturned + (IF IsTerminal(r) THEN 1 ELSE 0)
    /\ proc' = Reap(proc)
    /\ nops' = nops + 1
    /\ UNCHANGED << spawnVars, ttyVars, termStatus, pending, exitVars, handle,
                    aliveLog, extVars >>

IsAlive ==
    /\ CanCall
    /\ LET r == IsAliveOf(StatusResult(proc, termStatus))
       IN  /\ lastOp' = OpRec("is_alive", r, proc, "none")
           /\ aliveLog' = LogAlive(aliveLog, r)
    /\ proc' = Reap(proc)
    /\ nops' = nops + 1
    /\ UNCHANGED << spawnVars, ttyVars, termStatus, pending, exitVars, handle,
                    termReturned, extVars >>

Kill ==
    /\ CanCall
    /\ \E sig \in Signals : \E r \in KillResults(proc) :
          /\ lastOp' = OpRec("kill", r, proc, sig)
          /\ pending' = IF r.k = "Ok" THEN Deliver(proc, pending, sig) ELSE pending
    /\ nops' = nops + 1
    /\ UNCHANGED << spawnVars, ttyVars, proc, termStatus, exitVars, handle, aliveLog,
                    termReturned, extVars >>


(***************************************************************************)
(* PtyProcess::exit and try_to_terminate.                                  *)
(***************************************************************************)
\* the loop's array with SIGINT before SIGCONT
ExitSignalsSwapped == << "SIGHUP", "SIGINT", "SIGCONT", "SIGTERM" >>

\* the signals of exit's loop, in the order of the array
ExitSignals == << "SIGHUP", "SIGCONT", "SIGINT", "SIGTERM" >>

\* the signal of the i-th try_to_terminate call of exit: the loop's, then SIGKILL
SignalAt(i) == IF i <= Len(ExitSignals) THEN ExitSignals[i] ELSE "SIGKILL"

\* try_to_terminate without the negation
TerminatedNotNegated(aliveRes) == aliveRes.v = "true"

\* try_to_terminate's result from its is_alive(): is_alive.map(|a| !a)
Terminated(aliveRes) == aliveRes.v = "false"

\* an exit that goes on to SIGKILL whatever force is
ExitAfterTryAlwaysKill(i, force, terminated) ==
    IF i <= 4
    THEN IF terminated THEN [ret |-> "true", idx |-> i]
         ELSE [ret |-> "none", idx |-> i + 1]
    ELSE [ret |-> (IF terminated THEN "true" ELSE "false"), idx |-> i]

\* what exit does once the i-th try_to_terminate returned Ok(terminated):
\* return a boolean (ret) or go on to the next call (ret = "none")
ExitAfterTry(i, force, terminated) ==
    IF i <= Len(ExitSignals)
    THEN IF terminated THEN [ret |-> "true", idx |-> i]
         ELSE IF i < Len(ExitSignals) THEN [ret |-> "none", idx |-> i + 1]
         ELSE IF ~force THEN [ret |-> "false", idx |-> i]
         ELSE [ret |-> "none", idx |-> i + 1]
    ELSE [ret |-> (IF terminated THEN "true" ELSE "false"), idx |-> i]

\* an exit that goes on to its signals whatever the is_alive() at its entry says
ExitAtEntryGoesOn(aliveRes) == [ret |-> "none", idx |-> 1]

\* what exit does after the is_alive() at its entry
ExitAtEntry(aliveRes) ==
    IF aliveRes.v = "false" THEN [ret |-> "true", idx |-> 0]
    ELSE [ret |-> "none", idx |-> 1]

ForceArg(f) == IF f THEN "force" ELSE "noforce"
CheckOf(aliveRes) == IF aliveRes.v = "true" THEN "alive" ELSE "dead"

\* exit returns r: to its caller, or to Drop, whose unwrap() panics on Err
ExitReturns(r, before) ==
    /\ lastOp' = OpRec("exit", r, before, ForceArg(xforce))
    /\ xpc' = "idle"
    /\ handle' = IF ~inDrop THEN handle
                 ELSE IF r.k = "Ok" THEN "dropped" ELSE "panicked"
    /\ inDrop' = FALSE

\* the owner calls exit(force)
ExitCall ==
    /\ CanCall
    /\ \E f \in BOOLEAN : xforce' = f
    /\ xpc' = "entry"
    /\ xidx' = 0
    /\ sigLog' = << >>
    /\ checkLog' = << >>
    /\ nops' = nops + 1
    /\ UNCHANGED << spawnVars, ttyVars, procVars, inDrop, handle, lastOp, aliveLog,
                    termReturned, extVars >>

\* if !self.is_alive()? { return Ok(true) }
ExitEntry ==
    /\ xpc = "entry"
    /\ LET r == IsAliveOf(StatusResult(proc, termStatus))
           d == ExitAtEntry(r)
       IN  /\ aliveLog' = LogAlive(aliveLog, r)
           /\ checkLog' = Append(checkLog, CheckOf(r))
           /\ IF r.k = "Err" THEN ExitReturns(r, proc) /\ xidx' = xidx
              ELSE IF d.ret # "none"
              THEN ExitReturns(Res("Ok", d.ret), proc) /\ xidx' = xidx
              ELSE /\ xpc' = "kill"
                   /\ xidx' = d.idx
                   /\ UNCHANGED << lastOp, handle, inDrop, extVars >>
    /\ proc' = Reap(proc)
    /\ UNCHANGED << spawnVars, ttyVars, termStatus, pending, xforce, sigLog, nops,
                    termReturned, extVars >>

\* try_to_terminate: self.kill(signal)?
ExitKill ==
    /\ xpc = "kill"
    /\ \E r \in KillResults(proc) :
          IF r.k = "Ok"
          THEN /\ sigLog' = Append(sigLog, SignalAt(xidx))
               /\ pending' = Deliver(proc, pending, SignalAt(xidx))
               /\ xpc' = "recheck"
               /\ UNCHANGED << lastOp, handle, inDrop, extVars >>
          ELSE /\ ExitReturns(r, proc)
               /\ UNCHANGED << sigLog, pending, extVars >>
    /\ UNCHANGED << spawnVars, ttyVars, proc, termStatus, xidx, xforce, checkLog, nops,
                    aliveLog, termReturned, extVars >>

\* try_to_terminate: the sleep, then self.is_alive().map(|is_alive| !is_alive),
\* and exit's use of the result
ExitRecheck ==
    /\ xpc = "recheck"
    /\ LET r == IsAliveOf(StatusResult(proc, termStatus))
           d == ExitAfterTry(xidx, xforce, Terminated(r))
       IN  /\ aliveLog' = LogAlive(aliveLog, r)
           /\ checkLog' = Append(checkLog, CheckOf(r))
           /\ IF r.k = "Err" THEN ExitReturns(r, proc) /\ xidx' = xidx
              ELSE IF d.ret # "none"
              THEN ExitReturns(Res("Ok", d.ret), proc) /\ xidx' = xidx
              ELSE /\ xpc' = "kill"
                   /\ xidx' = d.idx
                   /\ UNCHANGED << lastOp, handle, inDrop, extVars >>
    /\ proc' = Reap(proc)
    /\ UNCHANGED << spawnVars, ttyVars, termStatus, pending, xforce, sigLog, nops,
                    termReturned, extVars >>

(***************************************************************************)
(* impl Drop for PtyProcess.                                               *)
(***************************************************************************)
\* whether drop calls exit(true): if let Ok(WaitStatus::StillAlive) = self.status()
DropCallsExit(st) == st.k = "Ok" /\ st.v = "StillAlive"

Drop ==
    /\ handle = "live"
    /\ xpc = "idle"
    /\ IF DropCallsExit(StatusResult(proc, termStatus))
       THEN /\ inDrop' = TRUE
            /\ xforce' = TRUE
            /\ xpc' = "entry"
            /\ xidx' = 0
            /\ sigLog' = << >>
            /\ checkLog' = << >>
            /\ handle' = handle
       ELSE /\ handle' = "dropped"
            /\ UNCHANGED exitVars
    /\ proc' = Reap(proc)
    /\ UNCHANGED << spawnVars, ttyVars, termStatus, pending, nops, lastOp, aliveLog,
                    termReturned, extVars >>

(***************************************************************************)
(* The specification.                                                      *)
(***************************************************************************)
Next ==
    \/ SpawnFork
    \/ SpawnPreForkFails
    \/ ChildSetupOk
    \/ ChildSetupFails
    \/ ChildSysconfNone
    \/ ChildExecOk
    \/ ChildExecFails
    \/ ChildWriteOk
    \/ ChildWriteFails
    \/ ChildExit
    \/ ParentCloseWrite
    \/ ParentRead
    \/ ParentSetSize
    \/ ParentReturnOk
    \/ ParentSyscallFails
    \/ ProcExits
    \/ ProcDiesOfSignal
    \/ ProcSurvivesSignal
    \/ Status
    \/ Wait
    \/ IsAlive
    \/ Kill
    \/ ExitCall
    \/ ExitEntry
    \/ ExitKill
    \/ ExitRecheck
    \/ Drop

Spec == Init /\ [][Next]_vars


(***************************************************************************)
(* Properties.                                                             *)
(***************************************************************************)

\* C1: spawn returns Ok in the parent only if the child exec'ed the command;
\* the parent reads 0 bytes (EOF) only after a successful exec; a failed exec
\* or setup step always leads to the parent reading a non-zero 4-byte code.
C1_OkOnlyAfterExec ==
    /\ spawnRet.k = "Ok" => cpc = "execed"
    /\ (pread.done /\ pread.bytes = << >>) => cpc = "execed"
    /\ (pread.done /\ cerr # NoErr) =>
          (Len(pread.bytes) = 4 /\ DecodeCode(pread.bytes) # 0)

\* C2: when the child reported an errno of the modelled set over the pipe
\* and the parent decoded the pipe's bytes, the error spawn returns carries
\* exactly that errno, and the bytes read are its 4 big-endian bytes.
C2_ErrnoRoundTrip ==
    (spawnRet.src = "pipe" /\ cerr.kind = "Sys") =>
        /\ spawnRet.k = "Err"
        /\ spawnRet.errno = cerr.errno
        /\ pread.bytes = << 0, 0, 0, cerr.errno >>

\* a failed exec whose errno came back to the caller of spawn
C2_Witness ==
    /\ failedAt = "exec"
    /\ spawnRet.src = "pipe"
    /\ spawnRet.errno = 13

\* C3: in the forked child spawn never comes back to its caller: on every
\* path the child execs the command or exits the process.
C3_ChildNeverReturns == cpc \notin {"returned", "panicked"}

\* C4: is_alive never returns Ok(true) after an is_alive returned Ok(false),
\* and on a reaped child it returns Ok(false), not the ECHILD of waitpid.
C4_IsAliveMonotone ==
    /\ aliveLog # "revived"
    /\ (lastOp.op = "is_alive" /\ lastOp.before = "reaped") =>
          (lastOp.k = "Ok" /\ lastOp.v = "false")

\* is_alive was called on a reaped child after an earlier call returned true
C4_Witness ==
    /\ lastOp.op = "is_alive"
    /\ lastOp.before = "reaped"
    /\ lastOp.v = "false"
    /\ aliveLog = "dead"

\* C5: the signals one exit call sends are a prefix of SIGHUP, SIGCONT,
\* SIGINT, SIGTERM, SIGKILL; a liveness check follows each; no signal is sent
\* after a check found the child not alive; a child not alive at entry gets
\* no signal and exit returns Ok(true).
C5_Order == << "SIGHUP", "SIGCONT", "SIGINT", "SIGTERM", "SIGKILL" >>

C5_ExitSignalOrder ==
    /\ Len(sigLog) <= Len(C5_Order)
    /\ \A i \in 1..Len(sigLog) : sigLog[i] = C5_Order[i]
    /\ xpc = "recheck" => Len(checkLog) = Len(sigLog)
    /\ (xpc \in {"idle", "kill"} /\ checkLog # << >>) => Len(checkLog) = Len(sigLog) + 1
    /\ \A i \in 1..Len(checkLog) : checkLog[i] = "dead" => Len(sigLog) < i
    /\ (xpc = "idle" /\ lastOp.op = "exit" /\ checkLog[1] = "dead") =>
          (sigLog = << >> /\ lastOp.k = "Ok" /\ lastOp.v = "true")

\* an exit call went through all five signals
C5_Witness == xpc = "idle" /\ lastOp.op = "exit" /\ Len(sigLog) = 5 /\ Len(checkLog) = 6

\* C6: exit(false) never sends SIGKILL and returns Ok(false) exactly when the
\* check after SIGTERM found the child alive; SIGKILL is sent only by
\* exit(true), as the fifth signal, after every earlier check found it alive.
C6_KillOnlyWhenForced ==
    /\ ~xforce => \A i \in 1..Len(sigLog) : sigLog[i] # "SIGKILL"
    /\ (xpc = "idle" /\ lastOp.op = "exit" /\ lastOp.arg = "noforce" /\ lastOp.k = "Ok") =>
          (lastOp.v = "false" <=>
              (Len(sigLog) = 4 /\ sigLog[4] = "SIGTERM"
                  /\ Len(checkLog) = 5 /\ checkLog[5] = "alive"))
    /\ \A i \in 1..Len(sigLog) : sigLog[i] = "SIGKILL" =>
          /\ xforce
          /\ i = 5
          /\ SubSeq(sigLog, 1, 4) = << "SIGHUP", "SIGCONT", "SIGINT", "SIGTERM" >>
          /\ \A j \in 1..5 : checkLog[j] = "alive"

\* exit(false) gave up on a child that survived SIGTERM
C6_Witness ==
    /\ xpc = "idle"
    /\ lastOp.op = "exit"
    /\ lastOp.arg = "noforce"
    /\ lastOp.k = "Ok"
    /\ lastOp.v = "false"

\* C7: when exit returns Ok(true) the child has ended and been reaped and an
\* is_alive() that follows returns Ok(false); when it returns Ok(false) the
\* last liveness check of the call found the child alive.
C7_ExitResult ==
    (xpc = "idle" /\ lastOp.op = "exit" /\ lastOp.k = "Ok") =>
        /\ lastOp.v = "true" =>
              /\ proc = "reaped"
              /\ IsAliveOf(StatusResult(proc, termStatus)) = Res("Ok", "false")
        /\ lastOp.v = "false" => checkLog[Len(checkLog)] = "alive"

\* exit returned Ok(true) for a child that one of its signals ended
C7_Witness ==
    /\ xpc = "idle"
    /\ lastOp.op = "exit"
    /\ lastOp.k = "Ok"
    /\ lastOp.v = "true"
    /\ Len(sigLog) >= 1
    /\ termStatus.kind = "Signaled"

\* C8: once a handle has been dropped its child is neither running nor an
\* unreaped zombie.
C8_DropReaps == handle = "dropped" => proc = "reaped"

\* C9: wait() on a child that an earlier call reaped returns an error, and
\* the terminal status is returned by at most one call on the handle.
C9_WaitAfterReap ==
    /\ (lastOp.op = "wait" /\ lastOp.before = "reaped") => lastOp.k = "Err"
    /\ termReturned <= 1

\* wait() failed after another call had returned the terminal status
C9_Witness ==
    /\ lastOp.op = "wait"
    /\ lastOp.before = "reaped"
    /\ lastOp.k = "Err"
    /\ termReturned = 1

\* C10: when spawn has returned Ok and nothing was called on the handle yet,
\* the pty has echo off and size 80x24, and the exec'ed command starts with
\* echo off.
C10_EchoOffAfterSpawn ==
    /\ (spawnRet.k = "Ok" /\ nops = 0) =>
          (echo = FALSE /\ winsize = << 80, 24 >>)
    /\ cpc = "execed" => echo = FALSE

(***************************************************************************)
(* The window size, echo and control-character operations of the handle.   *)
(***************************************************************************)
coreVars == << spawnVars, procVars, exitVars, handleVars, laterVars >>

U16s == {0, 65535}
\* the error a failing ioctl, tcgetattr, tcsetattr or write returns
IoErrnos == {5}

TermRec(op, k, v, arg, pre, post) ==
    [op |-> op, k |-> k, v |-> v, arg |-> arg, pre |-> pre, post |-> post]

TermCanCall == handle = "live" /\ xpc = "idle" /\ wpc = "idle" /\ tn < MaxTermOps

\* the child and the caller's environment change a terminal a bounded number
\* of times
OthersCanAct == handle = "live" /\ nothers < MaxOthers

\* what TIOCGWINSZ fills in for the pty
KernelSize == Winsize(winsize[2], winsize[1], wsPixel[1], wsPixel[2])
\* what tcgetattr returns for the pty
KernelFlags == Termios(echo, ptyOther)

\* set_window_size: set_term_size on the master; TIOCSWINSZ stores the struct
SetWindowSize ==
    /\ TermCanCall
    /\ tn' = tn + 1
    /\ \E cols \in U16s, rows \in U16s :
         \/ /\ winsize' = << SizeArg(cols, rows).ws_col, SizeArg(cols, rows).ws_row >>
            /\ wsPixel' = << SizeArg(cols, rows).ws_xpixel, SizeArg(cols, rows).ws_ypixel >>
            /\ lastSetWs' = [valid |-> TRUE, arg |-> << cols, rows >>]
            /\ tlog' = TermRec("set_window_size", "Ok", "unit", << cols, rows >>,
                               KernelSize, SizeArg(cols, rows))
         \/ /\ \E e \in IoErrnos :
                 tlog' = TermRec("set_window_size", "Err", e, << cols, rows >>,
                                 KernelSize, KernelSize)
            /\ UNCHANGED << winsize, wsPixel, lastSetWs >>
    /\ UNCHANGED << coreVars, echo, ptyOther, forkVars, envVars, toChild, lastSetEcho,
                    wechoVars >>

\* get_window_size: get_term_size on the master
GetWindowSize ==
    /\ TermCanCall
    /\ tn' = tn + 1
    /\ \/ tlog' = TermRec("get_window_size", "Ok", SizePair(KernelSize), "none",
                          KernelSize, KernelSize)
       \/ \E e \in IoErrnos :
            tlog' = TermRec("get_window_size", "Err", e, "none", KernelSize, KernelSize)
    /\ UNCHANGED << coreVars, ttyVars, forkVars, envVars, attrVars, toChild, lastSetWs,
                    lastSetEcho, wechoVars >>

\* set_echo: tcgetattr, set or clear ECHO in the flags, tcsetattr(TCSANOW)
SetEcho ==
    /\ TermCanCall
    /\ tn' = tn + 1
    /\ \E on \in BOOLEAN :
         \/ /\ echo' = EchoFlags(KernelFlags, on).echo
            /\ ptyOther' = EchoFlags(KernelFlags, on).other
            /\ lastSetEcho' = [valid |-> TRUE, arg |-> on]
            /\ tlog' = TermRec("set_echo", "Ok", "unit", on, KernelFlags,
                               EchoFlags(KernelFlags, on))
         \/ /\ \E e \in IoErrnos :
                 tlog' = TermRec("set_echo", "Err", e, on, KernelFlags, KernelFlags)
            /\ UNCHANGED << echo, ptyOther, lastSetEcho >>
    /\ UNCHANGED << coreVars, winsize, wsPixel, forkVars, envVars, toChild, lastSetWs,
                    wechoVars >>

\* get_echo: tcgetattr and the ECHO bit of the local flags
GetEchoOf(flags) == flags.echo

GetEcho ==
    /\ TermCanCall
    /\ tn' = tn + 1
    /\ \/ tlog' = TermRec("get_echo", "Ok", GetEchoOf(KernelFlags), "none",
                          KernelFlags, KernelFlags)
       \/ \E e \in IoErrnos :
            tlog' = TermRec("get_echo", "Err", e, "none", KernelFlags, KernelFlags)
    /\ UNCHANGED << coreVars, ttyVars, forkVars, envVars, attrVars, toChild, lastSetWs,
                    lastSetEcho, wechoVars >>

\* the program in the pty resizes its terminal
ChildSetsWinsize ==
    /\ proc = "running"
    /\ OthersCanAct
    /\ \E c \in U16s, r \in U16s, px \in {<< 0, 0 >>, << 640, 480 >>} :
         /\ << c, r, px >> # << winsize[1], winsize[2], wsPixel >>
         /\ winsize' = << c, r >>
         /\ wsPixel' = px
    /\ lastSetWs' = NoSet
    /\ nothers' = nothers + 1
    /\ UNCHANGED << coreVars, echo, ptyOther, forkVars, fd0, fd1, toChild, tn, tlog,
                    lastSetEcho, wechoVars >>

\* the program in the pty changes the attributes of its terminal
ChildSetsTermios ==
    /\ proc = "running"
    /\ OthersCanAct
    /\ \E e \in BOOLEAN, o \in BOOLEAN :
         /\ << e, o >> # << echo, ptyOther >>
         /\ echo' = e
         /\ ptyOther' = o
         /\ wHeld' = (wHeld /\ wpc # "idle" /\ e = wOn)
    /\ lastSetEcho' = NoSet
    /\ nothers' = nothers + 1
    /\ UNCHANGED << coreVars, winsize, wsPixel, forkVars, fd0, fd1, toChild, tn, tlog,
                    lastSetWs, wpc, wOn, wTimeout, wElapsed >>

\* the terminal behind descriptor 0 or 1 of the caller changes after spawn
CallerTerminalChanges ==
    /\ OthersCanAct
    /\ \E t0 \in Fd0Choices, t1 \in Fd1Choices :
         /\ << t0, t1 >> # << fd0, fd1 >>
         /\ fd0' = t0
         /\ fd1' = t1
    /\ nothers' = nothers + 1
    /\ UNCHANGED << coreVars, ttyVars, forkVars, attrVars, opVars, wechoVars >>

\* send_eof and send_intr: write_all of the one stored byte
SendControl(op, byte) ==
    /\ TermCanCall
    /\ tn' = tn + 1
    /\ \/ /\ toChild' = Append(toChild, byte)
          /\ tlog' = TermRec(op, "Ok", "unit", "none", toChild, Append(toChild, byte))
       \/ /\ \E e \in IoErrnos : tlog' = TermRec(op, "Err", e, "none", toChild, toChild)
          /\ UNCHANGED toChild
    /\ UNCHANGED << coreVars, ttyVars, forkVars, envVars, attrVars, lastSetWs,
                    lastSetEcho, wechoVars >>

SendEof == SendControl("send_eof", eofChar)
SendIntr == SendControl("send_intr", intrChar)

(***************************************************************************)
(* PtyProcess::wait_echo.                                                  *)
(***************************************************************************)
\* the loop condition: timeout.is_none() || now.elapsed() < timeout.unwrap()
WaitEchoGoesOn(timeout, elapsed) == ~timeout.some \/ elapsed < timeout.d

WaitEchoReturns(k, v, saw) ==
    /\ wpc' = "idle"
    /\ tlog' = TermRec("wait_echo", k, v, [on |-> wOn, timeout |-> wTimeout], wHeld,
                       [saw |-> saw, elapsed |-> wElapsed])

\* the call: now = Instant::now()
WaitEchoCall ==
    /\ TermCanCall
    /\ tn' = tn + 1
    /\ \E on \in BOOLEAN,
          timeout \in {NoDuration} \cup {SomeDuration(d) : d \in 0..MaxTicks} :
         /\ wOn' = on
         /\ wTimeout' = timeout
         /\ wHeld' = (echo = on)
    /\ wElapsed' = 0
    /\ wpc' = "test"
    /\ UNCHANGED << coreVars, ttyVars, forkVars, envVars, attrVars, toChild, tlog,
                    lastSetWs, lastSetEcho >>

\* the loop condition is evaluated; when it is false the call returns Ok(false)
WaitEchoTest ==
    /\ wpc = "test"
    /\ IF WaitEchoGoesOn(wTimeout, wElapsed)
       THEN wpc' = "poll" /\ UNCHANGED tlog
       ELSE WaitEchoReturns("Ok", "false", FALSE)
    /\ UNCHANGED << coreVars, ttyVars, forkVars, envVars, attrVars, toChild, tn,
                    lastSetWs, lastSetEcho, wOn, wTimeout, wElapsed, wHeld >>

\* on == self.get_echo()? : a match returns Ok(true), an error is returned
WaitEchoPoll ==
    /\ wpc = "poll"
    /\ \/ IF wOn = GetEchoOf(KernelFlags)
          THEN WaitEchoReturns("Ok", "true", TRUE)
          ELSE wpc' = "sleep" /\ UNCHANGED tlog
       \/ \E e \in IoErrnos : WaitEchoReturns("Err", e, FALSE)
    /\ UNCHANGED << coreVars, ttyVars, forkVars, envVars, attrVars, toChild, tn,
                    lastSetWs, lastSetEcho, wOn, wTimeout, wElapsed, wHeld >>

\* thread::sleep(100 ms)
WaitEchoSleep ==
    /\ wpc = "sleep"
    /\ wpc' = "test"
    /\ wElapsed' = IF wElapsed < MaxTicks THEN wElapsed + 1 ELSE MaxTicks
    /\ UNCHANGED << coreVars, ttyVars, forkVars, envVars, attrVars, opVars, wOn,
                    wTimeout, wHeld >>

\* the thread is descheduled between two steps of wait_echo
TimePasses ==
    /\ wpc # "idle"
    /\ wElapsed < MaxTicks
    /\ wElapsed' = wElapsed + 1
    /\ UNCHANGED << coreVars, ttyVars, forkVars, envVars, attrVars, opVars, wpc, wOn,
                    wTimeout, wHeld >>

(***************************************************************************)
(* The handle used for its terminal operations: spawn succeeds from any    *)
(* terminal of the caller, then the operations above are called.           *)
(***************************************************************************)
InitTerm ==
    /\ InitBase
    /\ pfds = {0, 1, 2}
    /\ fd0 \in Fd0Choices
    /\ fd1 \in Fd1Choices
    /\ api = "sync"

NextTerm ==
    \/ SpawnFork
    \/ ChildSetupOk
    \/ ChildExecOk
    \/ ParentCloseWrite
    \/ ParentRead
    \/ ParentSetSize
    \/ ParentReturnOk
    \/ SetWindowSize
    \/ GetWindowSize
    \/ SetEcho
    \/ GetEcho
    \/ ChildSetsWinsize
    \/ ChildSetsTermios
    \/ CallerTerminalChanges
    \/ SendEof
    \/ SendIntr

SpecTerm == InitTerm /\ [][NextTerm]_vars

\* the handle used for wait_echo while the child changes its terminal
NextWaitEcho ==
    \/ SpawnFork
    \/ ChildSetupOk
    \/ ChildExecOk
    \/ ParentCloseWrite
    \/ ParentRead
    \/ ParentSetSize
    \/ ParentReturnOk
    \/ SetEcho
    \/ ChildSetsTermios
    \/ WaitEchoCall
    \/ WaitEchoTest
    \/ WaitEchoPoll
    \/ WaitEchoSleep
    \/ TimePasses

SpecWaitEcho == Init /\ [][NextWaitEcho]_vars

(***************************************************************************)
(* Properties of the terminal operations.                                  *)
(***************************************************************************)
\* the byte the handle must hold: the one behind descriptor 0 when spawn
\* sampled it, else the one behind descriptor 1, else the default
C16_Captured(which, default) ==
    IF envAtFork[1].tty THEN envAtFork[1][which]
    ELSE IF envAtFork[2].tty THEN envAtFork[2][which]
    ELSE default

\* C16: the EOF and INTR bytes of a handle are those sampled before the fork
\* from descriptor 0, else descriptor 1, else 0x04 and 0x03; they stay so
\* whatever the caller's terminal or the pty becomes later, and every
\* send_eof / send_intr that returns Ok wrote exactly that one byte
C16_CharsCapturedOnce ==
    handle = "live" =>
        /\ eofChar = C16_Captured("veof", 4)
        /\ intrChar = C16_Captured("vintr", 3)
        /\ (tlog.op = "send_eof" /\ tlog.k = "Ok")
              => tlog.post = Append(tlog.pre, C16_Captured("veof", 4))
        /\ (tlog.op = "send_intr" /\ tlog.k = "Ok")
              => tlog.post = Append(tlog.pre, C16_Captured("vintr", 3))

\* send_eof wrote the byte sampled from descriptor 0 after the caller's
\* terminal had become another one
C16_Witness ==
    /\ tlog.op = "send_eof"
    /\ tlog.k = "Ok"
    /\ envAtFork[1].tty
    /\ << fd0, fd1 >> # envAtFork
    /\ toChild # << >>

\* C17: a wait_echo called while the pty's echo equals `on`, and during
\* which it stays so, returns Ok(true) for every timeout, zero included
C17_WaitEchoSeesMatch ==
    (tlog.op = "wait_echo" /\ tlog.k = "Ok" /\ tlog.pre = TRUE) => tlog.v = "true"

\* C18: after set_window_size(cols, rows) returned Ok, and until the child
\* resizes the terminal, the pixel fields are zero and get_window_size
\* returns (cols, rows), columns first
C18_SetThenGetWindowSize ==
    /\ lastSetWs.valid => wsPixel = << 0, 0 >>
    /\ (tlog.op = "set_window_size" /\ tlog.k = "Ok")
          => tlog.post.ws_xpixel = 0 /\ tlog.post.ws_ypixel = 0
    /\ (tlog.op = "get_window_size" /\ tlog.k = "Ok" /\ lastSetWs.valid)
          => tlog.v = lastSetWs.arg

\* get_window_size returned after a set_window_size with columns # rows
C18_Witness ==
    /\ tlog.op = "get_window_size"
    /\ tlog.k = "Ok"
    /\ lastSetWs.valid
    /\ lastSetWs.arg = << 0, 65535 >>

\* C19: after set_echo(b) returned Ok, and until the child changes the
\* attributes, get_echo returns b; a set_echo leaves every attribute other
\* than ECHO as it found it
C19_SetThenGetEcho ==
    /\ (tlog.op = "get_echo" /\ tlog.k = "Ok" /\ lastSetEcho.valid)
          => tlog.v = lastSetEcho.arg
    /\ (tlog.op = "set_echo" /\ tlog.k = "Ok")
          => tlog.post.other = tlog.pre.other /\ tlog.post.echo = tlog.arg
    /\ lastSetEcho.valid => echo = lastSetEcho.arg

\* get_echo returned after a set_echo(false) that followed a change by the child
C19_Witness ==
    /\ tlog.op = "get_echo"
    /\ tlog.k = "Ok"
    /\ lastSetEcho.valid
    /\ lastSetEcho.arg = FALSE
    /\ nothers > 0

(***************************************************************************)
(* PtyProcess::send and send_line, built with "sync" or with "async".      *)
(***************************************************************************)
LINE_ENDING == << 10 >>
Strs == UNION {[1..n -> {104, 105}] : n \in 0..MaxLen}

Take(buf, n) == SubSeq(buf, 1, n)

\* what one write_all(buf) can do: everything written and Ok, or an error
\* after only a part was written
WriteAll(buf) ==
    {[k |-> "Ok", out |-> buf]}
        \cup {[k |-> "Err", out |-> Take(buf, n)] : n \in 0..(Len(buf) - 1)}

\* what one write_vectored(bufs) can do: Ok(n) after the first n bytes of the
\* buffers were written, or an error with nothing written
WriteVectored(bufs) ==
    {[k |-> "Ok", out |-> Take(bufs, n)] : n \in 0..Len(bufs)}
        \cup {[k |-> "Err", out |-> << >>]}

\* sync send_line: one write_vectored of [s, LINE_ENDING, []] whose count is
\* dropped, then flush
SendLineSync(s) ==
    {[k |-> IF w.k = "Ok" THEN f ELSE "Err", out |-> w.out] :
        w \in WriteVectored(s \o LINE_ENDING), f \in {"Ok", "Err"}}

\* async send_line: write_all(s)?, write_all(LINE_ENDING)?, flush
SendLineAsync(s) ==
    {[k |-> "Err", out |-> w.out] : w \in {x \in WriteAll(s) : x.k = "Err"}}
        \cup {[k |-> IF w.k = "Ok" THEN f ELSE "Err", out |-> s \o w.out] :
                 w \in WriteAll(LINE_ENDING), f \in {"Ok", "Err"}}

SendReturns(op, s, r) ==
    /\ toChild' = toChild \o r.out
    /\ tlog' = TermRec(op, r.k, "unit", s, toChild, toChild \o r.out)
    /\ tn' = tn + 1
    /\ UNCHANGED << coreVars, ttyVars, forkVars, envVars, attrVars, lastSetWs,
                    lastSetEcho, wechoVars >>

\* send(s): stream.write_all(s)
Send ==
    /\ TermCanCall
    /\ \E s \in Strs : \E r \in WriteAll(s) : SendReturns("send", s, r)

\* send_line(s)
SendLine ==
    /\ TermCanCall
    /\ \E s \in Strs :
         \E r \in (IF api = "sync" THEN SendLineSync(s) ELSE SendLineAsync(s)) :
            SendReturns("send_line", s, r)

InitSend ==
    /\ InitBase
    /\ pfds = {0, 1, 2}
    /\ fd0 = NotATty
    /\ fd1 = NotATty
    /\ api \in {"sync", "async"}

NextSend ==
    \/ SpawnFork
    \/ ChildSetupOk
    \/ ChildExecOk
    \/ ParentCloseWrite
    \/ ParentRead
    \/ ParentSetSize
    \/ ParentReturnOk
    \/ Send
    \/ SendLine

SpecSend == InitSend /\ [][NextSend]_vars

\* C15: a send_line(s) that returns Ok has written the bytes of s and then
\* one newline, nothing less, however the stream's write behaves; a send(s)
\* that returns Ok has written the bytes of s
C15_SendLineWritesAll ==
    /\ (tlog.op = "send_line" /\ tlog.k = "Ok")
          => tlog.post = tlog.pre \o tlog.arg \o << 10 >>
    /\ (tlog.op = "send" /\ tlog.k = "Ok") => tlog.post = tlog.pre \o tlog.arg

(***************************************************************************)
(* PtyProcess::interact and _interact, built with "sync" or with "async".  *)
(***************************************************************************)
\* what no step of interact changes
interactFrame == << spawnVars, exitVars, handleVars, forkVars, envVars, winsize,
                   wsPixel, tn, tlog, lastSetWs, lastSetEcho, wechoVars, api, obsVars >>

CallLog(what, k) == [what |-> what, k |-> k]

\* the bytes of one chunk written to the child when the escape is not looked for
ForwardWholeChunk(buf) == buf

\* the bytes of one chunk the loop `for i in 0..n` writes to the child: those
\* before the first escape
RECURSIVE ForwardUntilEscape(_)
ForwardUntilEscape(buf) ==
    IF buf = << >> THEN << >>
    ELSE IF Head(buf) = ESCAPE THEN << >>
    ELSE << Head(buf) >> \o ForwardUntilEscape(Tail(buf))

\* what the loop over one chunk can do: a write_all fails after some bytes,
\* or the escape is met, or the chunk is written whole
ForwardChunk(chunk) ==
    LET pre == ForwardUntilEscape(chunk)
    IN  {[out |-> Take(pre, j), end |-> "error"] : j \in 0..(Len(pre) - 1)}
            \cup {[out |-> pre,
                   end |-> IF Len(pre) < Len(chunk) THEN "escape" ELSE "more"]}

\* a loop that stops whatever status() says
StatusEndsLoopAlways(r) == TRUE

\* !matches!(status, Ok(WaitStatus::StillAlive))
StatusEndsLoop(r) == ~(r.k = "Ok" /\ r.v = "StillAlive")

\* set_raw's change of the flags
SetRaw(flags) == "raw"

\* a restore that applies the flags descriptor 0 has now
RestoreCurrent(saved, current) == current

\* the flags the restoring tcsetattr(TCSAFLUSH) applies: origin_stdin_flags
RestoreFlags(saved, current) == saved

\* _interact returns r; interact goes on to its restores
LoopReturns(r, why) ==
    /\ iresult' = r
    /\ iend' = why
    /\ ipc' = "restore"

\* _interact returns self.status()
LoopReturnsStatus(why) ==
    /\ LoopReturns(StatusResult(proc, termStatus), why)
    /\ proc' = Reap(proc)

\* interact: flush, get_echo and set_echo(true), each returning its error
InteractCall ==
    /\ handle = "live"
    /\ xpc = "idle"
    /\ wpc = "idle"
    /\ ipc = "idle"
    /\ \/ /\ \E e \in IoErrnos : iret' = Res("Err", e)
          /\ ipc' = "done"
          /\ UNCHANGED << echo, ptyOther, iOrig, iSetEcho >>
       \/ /\ iOrig' = GetEchoOf(KernelFlags)
          /\ echo' = EchoFlags(KernelFlags, TRUE).echo
          /\ ptyOther' = EchoFlags(KernelFlags, TRUE).other
          /\ iSetEcho' = TRUE
          /\ ipc' = "isatty"
          /\ UNCHANGED iret
    /\ UNCHANGED << interactFrame, procVars, toChild, iSaved, stdinMode, typed, nread,
                    stdinEof, nout, ngot, stdoutLog, iresult, iend, ilog >>

\* isatty(STDIN_FILENO)?, then for a tty tcgetattr? and set_raw?, then
\* _interact's dup(STDIN_FILENO)
InteractStdin ==
    /\ ipc = "isatty"
    /\ \/ /\ \E e \in IoErrnos : iret' = Res("Err", e)
          /\ ipc' = "done"
          /\ \/ UNCHANGED << ilog, iSaved >>
             \/ /\ fd0.tty
                /\ ilog' = Append(ilog, CallLog("tcgetattr", "Err"))
                /\ UNCHANGED iSaved
             \/ /\ fd0.tty
                /\ ilog' = ilog \o << CallLog("tcgetattr", "Ok"), CallLog("set_raw", "Err") >>
                /\ iSaved' = stdinMode
          /\ UNCHANGED << stdinMode, iresult, iend >>
       \/ /\ IF fd0.tty
             THEN /\ ilog' = ilog \o << CallLog("tcgetattr", "Ok"), CallLog("set_raw", "Ok") >>
                  /\ iSaved' = stdinMode
                  /\ stdinMode' = SetRaw(stdinMode)
             ELSE UNCHANGED << ilog, iSaved, stdinMode >>
          /\ \/ ipc' = "loop" /\ UNCHANGED << iresult, iend >>
             \/ \E e \in IoErrnos : LoopReturns(Res("Err", e), "error")
          /\ UNCHANGED iret
    /\ UNCHANGED << interactFrame, procVars, echo, ptyOther, toChild, iOrig, iSetEcho,
                    typed, nread, stdinEof, nout, ngot, stdoutLog >>

\* the top of the loop: status(), and the return unless it is Ok(StillAlive)
LoopStatus ==
    /\ ipc = "loop"
    /\ IF StatusEndsLoop(StatusResult(proc, termStatus))
       THEN LoopReturnsStatus("status")
       ELSE ipc' = "read_child" /\ UNCHANGED << proc, iresult, iend >>
    /\ UNCHANGED << interactFrame, termStatus, pending, echo, ptyOther, toChild, iOrig,
                    iSetEcho, iSaved, stdinMode, typed, nread, stdinEof, nout, ngot,
                    stdoutLog, iret, ilog >>

\* self.try_read(&mut buf)? and the write of what was read to stdout
LoopReadChild ==
    /\ ipc = "read_child"
    /\ \/ /\ \E e \in IoErrnos : LoopReturns(Res("Err", e), "error")
          /\ UNCHANGED << proc, ngot, stdoutLog >>
       \/ /\ ngot = nout
          /\ ipc' = "read_stdin"
          /\ UNCHANGED << proc, ngot, stdoutLog, iresult, iend >>
       \/ /\ ngot = nout
          /\ proc # "running"
          /\ IF api = "sync"
             THEN LoopReturnsStatus("zero")
             ELSE ipc' = "read_stdin" /\ UNCHANGED << proc, iresult, iend >>
          /\ UNCHANGED << ngot, stdoutLog >>
       \/ \E n \in 1..(nout - ngot) :
            /\ ngot' = ngot + n
            /\ \/ /\ stdoutLog' = stdoutLog \o [i \in 1..n |-> ngot + i]
                  /\ ipc' = "read_stdin"
                  /\ UNCHANGED << iresult, iend >>
               \/ /\ \E j \in 0..(n - 1) :
                       stdoutLog' = stdoutLog \o [i \in 1..j |-> ngot + i]
                  /\ \E e \in IoErrnos : LoopReturns(Res("Err", e), "error")
            /\ UNCHANGED proc
    /\ UNCHANGED << interactFrame, termStatus, pending, echo, ptyOther, toChild, iOrig,
                    iSetEcho, iSaved, stdinMode, typed, nread, stdinEof, nout, iret,
                    ilog >>

\* stdin_stream.try_read(&mut buf)? and the loop over the bytes read
LoopReadStdin ==
    /\ ipc = "read_stdin"
    /\ \/ /\ \E e \in IoErrnos : LoopReturns(Res("Err", e), "error")
          /\ UNCHANGED << proc, nread, toChild >>
       \/ /\ nread = Len(typed)
          /\ ~stdinEof
          /\ ipc' = "loop"
          /\ UNCHANGED << proc, nread, toChild, iresult, iend >>
       \/ /\ nread = Len(typed)
          /\ stdinEof
          /\ IF api = "sync"
             THEN LoopReturnsStatus("zero")
             ELSE ipc' = "loop" /\ UNCHANGED << proc, iresult, iend >>
          /\ UNCHANGED << nread, toChild >>
       \/ \E n \in 1..(Len(typed) - nread) :
            /\ nread' = nread + n
            /\ \E o \in ForwardChunk(SubSeq(typed, nread + 1, nread + n)) :
                 /\ toChild' = toChild \o o.out
                 /\ CASE o.end = "escape" -> LoopReturnsStatus("escape")
                      [] o.end = "error" ->
                           /\ \E e \in IoErrnos : LoopReturns(Res("Err", e), "error")
                           /\ UNCHANGED proc
                      [] OTHER -> ipc' = "loop" /\ UNCHANGED << proc, iresult, iend >>
    /\ UNCHANGED << interactFrame, termStatus, pending, echo, ptyOther, iOrig, iSetEcho,
                    iSaved, stdinMode, typed, stdinEof, nout, ngot, stdoutLog, iret,
                    ilog >>

\* after _interact: for a tty the tcsetattr of the saved flags, then
\* set_echo(origin_pty_echo), each returning its error; then the result
InteractRestore ==
    /\ ipc = "restore"
    /\ ipc' = "done"
    /\ \/ /\ iSaved # "none"
          /\ ilog' = Append(ilog, CallLog("restore_stdin", "Err"))
          /\ \E e \in IoErrnos : iret' = Res("Err", e)
          /\ UNCHANGED << stdinMode, echo, ptyOther >>
       \/ /\ IF iSaved # "none"
             THEN stdinMode' = RestoreFlags(iSaved, stdinMode)
             ELSE UNCHANGED stdinMode
          /\ LET done == IF iSaved # "none"
                         THEN Append(ilog, CallLog("restore_stdin", "Ok"))
                         ELSE ilog
             IN  \/ /\ echo' = EchoFlags(KernelFlags, iOrig).echo
                    /\ ptyOther' = EchoFlags(KernelFlags, iOrig).other
                    /\ ilog' = Append(done, CallLog("restore_echo", "Ok"))
                    /\ iret' = iresult
                 \/ /\ ilog' = Append(done, CallLog("restore_echo", "Err"))
                    /\ \E e \in IoErrnos : iret' = Res("Err", e)
                    /\ UNCHANGED << echo, ptyOther >>
    /\ UNCHANGED << interactFrame, procVars, toChild, iOrig, iSetEcho, iSaved, typed,
                    nread, stdinEof, nout, ngot, stdoutLog, iresult, iend >>

\* the user types a byte on descriptor 0: the escape, or a letter that tells
\* its place in the input
UserTypes ==
    /\ handle = "live"
    /\ ipc # "done"
    /\ ~stdinEof
    /\ Len(typed) < MaxInput
    /\ \E b \in {97 + Len(typed), ESCAPE} : typed' = Append(typed, b)
    /\ UNCHANGED << interactFrame, procVars, echo, ptyOther, toChild, ipc, iOrig,
                    iSetEcho, iSaved, stdinMode, nread, stdinEof, nout, ngot, stdoutLog,
                    iresult, iend, iret, ilog >>

\* the input on descriptor 0 ends
UserClosesStdin ==
    /\ handle = "live"
    /\ ipc # "done"
    /\ ~stdinEof
    /\ stdinEof' = TRUE
    /\ UNCHANGED << interactFrame, procVars, echo, ptyOther, toChild, ipc, iOrig,
                    iSetEcho, iSaved, stdinMode, typed, nread, nout, ngot, stdoutLog,
                    iresult, iend, iret, ilog >>

\* the child writes a byte to its terminal
ChildWrites ==
    /\ handle = "live"
    /\ ipc # "done"
    /\ ProcOnItsOwn
    /\ nout < MaxOutput
    /\ nout' = nout + 1
    /\ UNCHANGED << interactFrame, procVars, echo, ptyOther, toChild, ipc, iOrig,
                    iSetEcho, iSaved, stdinMode, typed, nread, stdinEof, ngot, stdoutLog,
                    iresult, iend, iret, ilog >>

InitInteract ==
    /\ InitBase
    /\ pfds = {0, 1, 2}
    /\ fd0 \in Fd0Choices
    /\ fd1 = NotATty
    /\ api \in {"sync", "async"}

\* the steps of the thread that called interact
InteractStep ==
    \/ InteractStdin
    \/ LoopStatus
    \/ LoopReadChild
    \/ LoopReadStdin
    \/ InteractRestore

NextInteract ==
    \/ SpawnFork
    \/ ChildSetupOk
    \/ ChildExecOk
    \/ ParentCloseWrite
    \/ ParentRead
    \/ ParentSetSize
    \/ ParentReturnOk
    \/ ProcExits
    \/ InteractCall
    \/ InteractStdin
    \/ LoopStatus
    \/ LoopReadChild
    \/ LoopReadStdin
    \/ InteractRestore
    \/ UserTypes
    \/ UserClosesStdin
    \/ ChildWrites

SpecInteract == InitInteract /\ [][NextInteract]_vars

\* the thread in interact keeps being scheduled
SpecInteractFair == SpecInteract /\ WF_vars(InteractStep)

(***************************************************************************)
(* Properties of interact.                                                 *)
(***************************************************************************)
C11_UpToEscape(seq) ==
    LET at == {i \in 1..Len(seq) : seq[i] = 29}
    IN  IF at = {} THEN seq
        ELSE SubSeq(seq, 1, (CHOOSE i \in at : \A j \in at : i <= j) - 1)

C11_IsPrefix(a, b) == Len(a) <= Len(b) /\ a = SubSeq(b, 1, Len(a))

\* C11: the bytes interact has written to the child are, in order and each
\* once, the bytes it has read from stdin before the first 0x1D (all of them
\* whenever no write or read has failed, a prefix of them otherwise); the
\* 0x1D and what follows it are never written; the bytes read from the child
\* are written to stdout in read order
C11_InteractForwards ==
    LET want == C11_UpToEscape(SubSeq(typed, 1, nread))
        got == [i \in 1..ngot |-> i]
        sound == \/ ipc \in {"idle", "isatty", "loop"}
                 \/ ipc \in {"restore", "done"} /\ iend # "error"
    IN  /\ C11_IsPrefix(toChild, want)
        /\ C11_IsPrefix(stdoutLog, got)
        /\ sound => toChild = want /\ stdoutLog = got
        /\ ipc = "read_stdin" => toChild = want
        /\ ipc = "read_child" => stdoutLog = got

\* interact returned on an escape read in one chunk with a byte after it,
\* having copied two bytes of the child to stdout
C11_Witness ==
    /\ ipc = "done"
    /\ iend = "escape"
    /\ typed = << 97, 29, 99 >>
    /\ nread = 3
    /\ toChild = << 97 >>
    /\ stdoutLog = << 1, 2 >>

\* C12: when interact has returned after its set_echo(true) succeeded, by
\* whatever path other than a failure of the echo restore itself, the pty's
\* echo is what it was when interact was called
C12_EchoRestoredOnReturn ==
    ( /\ ipc = "done"
      /\ iSetEcho
      /\ \A i \in 1..Len(ilog) : ilog[i] # CallLog("restore_echo", "Err") )
        => echo = iOrig

\* C13: when interact has returned after switching descriptor 0 to raw mode,
\* it has called the tcsetattr that re-applies the saved flags (which are
\* then in force unless that call itself failed) and has done so before any
\* echo restore; when descriptor 0 is not a tty interact makes no termios
\* call on it and leaves it as it was
C13_StdinRestored ==
    LET calls(what) == {i \in 1..Len(ilog) : ilog[i].what = what}
        wentRaw == \E i \in 1..Len(ilog) : ilog[i] = CallLog("set_raw", "Ok")
    IN  /\ (ipc = "done" /\ wentRaw) =>
              /\ calls("restore_stdin") # {}
              /\ \A i \in calls("restore_stdin") :
                    /\ ilog[i].k = "Ok" => stdinMode = iSaved /\ iSaved = "cooked"
                    /\ \A j \in calls("restore_echo") : i < j
        /\ ~wentRaw => stdinMode = "cooked"
        /\ ~fd0.tty => \A i \in 1..Len(ilog) : ilog[i].what = "restore_echo"

\* interact returned the error of its loop after restoring raw stdin and echo
C13_Witness ==
    /\ ipc = "done"
    /\ iend = "error"
    /\ iret.k = "Err"
    /\ ilog = << CallLog("tcgetattr", "Ok"), CallLog("set_raw", "Ok"),
                 CallLog("restore_stdin", "Ok"), CallLog("restore_echo", "Ok") >>
    /\ stdinMode = "cooked"

\* C14 as stated: interact returns Ok(status) only with a status that is not
\* StillAlive or after reading the escape byte
C14_OkMeansExitOrEscape ==
    (ipc = "done" /\ iret.k = "Ok") =>
        \/ iret.v # "StillAlive"
        \/ \E i \in 1..nread : typed[i] = 29

\* C14: interact returns Ok(status) only with a status that is not
\* StillAlive, or after reading the escape byte, or, built with "sync", after
\* a read of the child's stream or of stdin returned 0 bytes; and once the
\* child has ended or the escape is typed a running interact returns
C14_ReturnsOnExitEscapeOrEof ==
    /\ []( (ipc = "done" /\ iret.k = "Ok") =>
              \/ iret.v # "StillAlive"
              \/ \E i \in 1..nread : typed[i] = 29
              \/ api = "sync" /\ iend = "zero" )
    /\ ( ( /\ ipc \notin {"idle", "done"}
           /\ (proc # "running" \/ \E i \in 1..Len(typed) : typed[i] = 29) )
          ~> ipc = "done" )

\* the sync interact returned Ok(StillAlive) at the end of stdin, no escape typed
C14_Witness ==
    /\ ipc = "done"
    /\ api = "sync"
    /\ iend = "zero"
    /\ iret = Res("Ok", "StillAlive")
    /\ \A i \in 1..Len(typed) : typed[i] # 29

(***************************************************************************)
(* Observer operations called by several threads on a shared &PtyProcess.  *)
(***************************************************************************)
ObserverOps == {"pid", "status", "is_alive", "wait", "get_window_size", "get_echo"}

observerFrame == << spawnVars, ttyVars, termStatus, pending, exitVars, handle, nops,
                   lastOp, aliveLog, forkVars, envVars, attrVars, opVars, wechoVars,
                   api, interactVars >>

\* a result that says the child is not alive
SaysDead(op, r) ==
    \/ op \in {"status", "wait"} /\ r # Res("Ok", "StillAlive")
    \/ op = "is_alive" /\ r = Res("Ok", "false")

\* what the one system call of an operation returns when it takes effect
ObserverResult(op) ==
    CASE op = "pid" -> Res("Ok", "child_pid")
      [] op = "status" -> StatusResult(proc, termStatus)
      [] op = "is_alive" -> IsAliveOf(StatusResult(proc, termStatus))
      [] op = "wait" -> WaitResult(proc, termStatus)
      [] op = "get_window_size" -> Res("Ok", SizePair(KernelSize))
      [] OTHER -> Res("Ok", GetEchoOf(KernelFlags))

\* the system call of an operation takes effect and the call returns: the
\* waitpid of status, is_alive and wait reaps an ended child
ObserverReturns(t) ==
    /\ obs' = [obs EXCEPT ![t].pc = "idle", ![t].res = ObserverResult(obs[t].op)]
    /\ deadSeen' = (deadSeen \/ SaysDead(obs[t].op, ObserverResult(obs[t].op)))
    /\ IF obs[t].op \in {"status", "is_alive", "wait"}
       THEN /\ proc' = Reap(proc)
            /\ termReturned' = termReturned +
                  (IF proc = "zombie" /\ obs[t].op # "is_alive" THEN 1 ELSE 0)
       ELSE UNCHANGED << proc, termReturned >>

\* a thread calls an operation
ObsCall(t) ==
    /\ handle = "live"
    /\ xpc = "idle"
    /\ obs[t].pc = "idle"
    /\ ncalls < MaxObsCalls
    /\ ncalls' = ncalls + 1
    /\ \E op \in ObserverOps :
         obs' = [obs EXCEPT ![t] = [pc |-> "called", op |-> op, res |-> NoCall.res,
                                    after |-> deadSeen]]
    /\ UNCHANGED << observerFrame, proc, termReturned, deadSeen >>

\* the system call of the operation runs; a wait finding the child running blocks
ObsSyscall(t) ==
    /\ obs[t].pc = "called"
    /\ IF obs[t].op = "wait" /\ proc = "running"
       THEN /\ obs' = [obs EXCEPT ![t].pc = "blocked"]
            /\ UNCHANGED << proc, termReturned, deadSeen >>
       ELSE ObserverReturns(t)
    /\ UNCHANGED << observerFrame, ncalls >>

\* the kernel wakes a blocked waitpid once the child is not running
ObsWaitWakes(t) ==
    /\ obs[t].pc = "blocked"
    /\ proc # "running"
    /\ ObserverReturns(t)
    /\ UNCHANGED << observerFrame, ncalls >>

NextObservers ==
    \/ SpawnFork
    \/ ChildSetupOk
    \/ ChildExecOk
    \/ ParentCloseWrite
    \/ ParentRead
    \/ ParentSetSize
    \/ ParentReturnOk
    \/ ProcExits
    \/ \E t \in Observers : ObsCall(t)
    \/ \E t \in Observers : ObsSyscall(t)
    \/ \E t \in Observers : ObsWaitWakes(t)

SpecObservers == Init /\ [][NextObservers]_vars

\* the kernel does wake a waitpid whose child has ended or been reaped
SpecObserversFair == SpecObservers /\ \A t \in Observers : WF_vars(ObsWaitWakes(t))

\* C20: with observers sharing the handle, every result is one a sequential
\* order of the calls gives: the ended child's status goes to one caller
\* only, no call begun after a call found the child not alive finds it
\* alive, pid and the terminal reads return the values in force; no
\* is_alive returns an error; and a wait blocked when the child ends or
\* another observer reaps it returns
C20_ObserversLinearizable ==
    /\ [](termReturned <= 1)
    /\ [](\A t \in Observers : obs[t].res.k # "none" =>
            /\ obs[t].op = "is_alive" => obs[t].res.k = "Ok"
            /\ (obs[t].after /\ obs[t].op \in {"status", "wait"})
                  => obs[t].res = Res("Err", "ECHILD")
            /\ (obs[t].after /\ obs[t].op = "is_alive") => obs[t].res = Res("Ok", "false")
            /\ obs[t].op = "pid" => obs[t].res = Res("Ok", "child_pid")
            /\ obs[t].op = "get_echo" => obs[t].res = Res("Ok", echo)
            /\ obs[t].op = "get_window_size" => obs[t].res = Res("Ok", winsize))
    /\ \A t \in Observers :
          (obs[t].pc = "blocked" /\ proc # "running") ~> (obs[t].pc # "blocked")

\* a wait that blocked returned ECHILD, and an is_alive returned Ok(false),
\* after the other thread's status reaped the child
C20_Witness ==
    /\ obs[1].op = "wait"
    /\ obs[1].res = Res("Err", "ECHILD")
    /\ obs[2].op = "is_alive"
    /\ obs[2].res = Res("Ok", "false")
    /\ obs[2].after
    /\ termReturned = 1
    /\ ncalls = 3

(***************************************************************************)
(* spawn alone, for every set of descriptors the caller holds.             *)
(***************************************************************************)
InitSpawn ==
    /\ InitBase
    /\ pfds \in SUBSET (0..MaxParentFd)
    /\ fd0 = NotATty
    /\ fd1 = NotATty
    /\ api = "sync"

\* the calls of the parent after the fork, each returning without an error
ParentProgress ==
    \/ ParentCloseWrite
    \/ ParentRead
    \/ ParentSetSize
    \/ ParentReturnOk

NextSpawn ==
    \/ SpawnFork
    \/ SpawnPreForkFails
    \/ ChildSetupOk
    \/ ChildSetupFails
    \/ ChildSysconfNone
    \/ ChildExecOk
    \/ ChildExecFails
    \/ ChildWriteOk
    \/ ChildWriteFails
    \/ ChildExit
    \/ ParentCloseWrite
    \/ ParentRead
    \/ ParentSetSize
    \/ ParentReturnOk
    \/ ParentSyscallFails
    \/ ProcExits

SpecSpawn == InitSpawn /\ [][NextSpawn]_vars

\* the parent is a running thread: a call of it that can return does return
\* (a blocking read returns once it has bytes or the end of file); nothing
\* is assumed of the child
SpecSpawnFair == SpecSpawn /\ WF_vars(ParentProgress)

\* C21: the parent reads the pipe only after it closed its write end, the
\* exec'ed command holds no write end, and once the child has exec'ed or its
\* process has ended, spawn returns in the parent.
C21_SpawnTerminates ==
    /\ [](ppc = "read" => ~wParent)
    /\ [](cpc = "execed" => ~wChild)
    /\ ((cpc = "execed" \/ proc = "zombie") /\ ppc # "start")
          ~> (ppc \in {"ok", "err"})

\* spawn returned Ok after the read met the end of file the exec left
C21_Witness ==
    /\ ppc = "ok"
    /\ cpc = "execed"
    /\ pread.done
    /\ pread.bytes = << >>
    /\ proc = "running"

\* the five steps of make_controlling_tty, in the order of the source
ProtocolSteps == << "tty_probe", "setsid", "tty_probe_again", "open_slave", "tty_confirm" >>

\* the steps of the protocol the closure has completed, in order
ProtocolDone ==
    SelectSeq(clog, LAMBDA r :
        r.step \in { ProtocolSteps[i] : i \in 1..Len(ProtocolSteps) })

StepDone(name) == \E i \in 1..Len(clog) : clog[i].step = name

\* C22: the completed steps of the controlling-terminal protocol are a prefix
\* of probe, setsid, second probe, slave open, confirming open; setsid never
\* follows the slave open; the slave path is opened only after the second
\* probe returned ENXIO; the first probe aborts only with an errno other than
\* ENXIO; the streams are redirected and echo is switched off only after all
\* five steps.
C22_TtyProtocolOrder ==
    /\ Len(ProtocolDone) <= Len(ProtocolSteps)
    /\ \A i \in 1..Len(ProtocolDone) : ProtocolDone[i].step = ProtocolSteps[i]
    /\ \A i, j \in 1..Len(clog) :
          (clog[i].step = "open_slave" /\ clog[j].step = "setsid") => j < i
    /\ StepDone("open_slave") =>
          \E i \in 1..Len(clog) :
              /\ clog[i] = [step |-> "tty_probe_again", out |-> ENXIO]
              /\ \A j \in 1..Len(clog) : clog[j].step = "open_slave" => i < j
    /\ failedAt = "tty_probe" => (cerr.kind = "Sys" /\ cerr.errno # ENXIO)
    /\ (StepDone("redirect_std_streams") \/ StepDone("set_echo") \/ echo = FALSE)
          => Len(ProtocolDone) = Len(ProtocolSteps)
    /\ (StepDone("set_echo") \/ echo = FALSE) => StepDone("redirect_std_streams")

\* the child has run the protocol, redirected its streams and switched echo off
C22_Witness ==
    /\ cpc = "set_term_size"
    /\ echo = FALSE
    /\ Len(ProtocolDone) = 5

\* Error::from_errno(errno::from_i32(code)), the error spawn returns for a
\* code read from the pipe
FromErrno(e) == SysErr(e)

\* C23: a deviation from the controlling-tty protocol (at the second probe,
\* the slave open or the confirming open) is Error::UnsupportedOperation in
\* the child, and the error spawn then returns in the parent is of that kind.
C23_DeviationIsUnsupported ==
    failedAt \in {"tty_probe_again", "open_slave", "tty_confirm"} =>
        /\ cerr = Unsupported
        /\ spawnRet.src = "pipe" => FromErrno(spawnRet.errno) = Unsupported

C25_ErrLeavesNoCommand == (ppc = "err" /\ cpc # "none") => cpc # "execed"

\* C27: inside exit, called by the owner or by Drop, every kill is issued
\* while the child is running or an unreaped zombie, and exit never returns
\* the ESRCH of a kill.
C27_NoKillAfterReap ==
    /\ xpc = "kill" => proc \in {"running", "zombie"}
    /\ lastOp.op = "exit" => lastOp.v # "ESRCH"

\* Drop's exit sent SIGHUP to a child that ended by itself around the kill
C27_Witness ==
    /\ inDrop
    /\ xpc = "recheck"
    /\ sigLog = << "SIGHUP" >>
    /\ proc = "zombie"
    /\ termStatus.kind = "Exited"

\* C29: when spawn has returned in the parent, the parent holds neither end
\* of the exec-error pipe.
C29_PipeClosedOnReturn == ppc \in {"ok", "err"} => (~rParent /\ ~wParent)

(***************************************************************************)
(* More properties of interact's loop.                                     *)
(***************************************************************************)
\* the chunk a step of the loop reads from descriptor 0
ChunkRead == SubSeq(typed, nread + 1, nread')

\* a step of the loop reads a chunk that holds the escape byte
ReadsEscape ==
    /\ ipc = "read_stdin"
    /\ nread' > nread
    /\ \E i \in (nread + 1)..nread' : typed[i] = ESCAPE

\* C26 as stated: when the chunk read from stdin holds 0x1D, the loop returns
\* without having written any byte of that chunk to the child
C26_ReturnBeforeAnyByte == [][ReadsEscape => toChild' = toChild]_vars

\* C26: when the chunk read from stdin holds 0x1D, the loop returns in that
\* iteration; what it has written of the chunk are the bytes before the first
\* 0x1D, in order (all of them unless a write failed), and neither the 0x1D
\* nor a byte after it
C26_EscapeBeforeLaterBytes ==
    [][ReadsEscape =>
          /\ ipc' = "restore"
          /\ iend' \in {"escape", "error"}
          /\ \E j \in 0..Len(C11_UpToEscape(ChunkRead)) :
                /\ toChild' = toChild \o SubSeq(C11_UpToEscape(ChunkRead), 1, j)
                /\ iend' = "escape" => j = Len(C11_UpToEscape(ChunkRead))]_vars

\* the loop returned on an escape that followed a byte the child was sent
C26_Witness ==
    /\ ipc = "restore"
    /\ iend = "escape"
    /\ typed = << 97, 29 >>
    /\ nread = 2
    /\ toChild = << 97 >>
    /\ ngot = 0

\* C28: when the loop has returned on its status check, every byte the child
\* wrote to its terminal has been read and written to stdout
C28_OutputDrained ==
    (ipc \in {"restore", "done"} /\ iend = "status") =>
        (ngot = nout /\ stdoutLog = [i \in 1..nout |-> i])

====
